---- MODULE Spec2Model ----
(***************************************************************************)
(* Model of the nwp-consumer provider adapters:                            *)
(*   - the CEDA archive adapter   (inputs/ceda/client.py)                  *)
(*   - the ECMWF MARS forecast-API adapter (inputs/ecmwf/mars.py)          *)
(* Every adapter method is one action that models the whole call; the      *)
(* record `last` holds what the most recent call was given, what the       *)
(* environment answered, what the call returned or raised, the log         *)
(* entries it wrote and the transport calls it made, in order.             *)
(* Datetimes are whole hours since midnight of day 0.                      *)
(***************************************************************************)
EXTENDS Integers, Sequences, FiniteSets, TLC

VARIABLES
    ceda,       \* the archive adapter instance (its private credentials)
    mars,       \* the forecast-API adapter instance (area, hours, desired_params)
    cache,      \* raw cache: cache path -> file at that path
    tmpfiles,   \* number of listing temp files present on disk
    last,       \* the most recent call
    manifest,   \* manifest parser: the text handed to _parseAvaliableParams
    parsed,     \* manifest parser: its result
    rawfile,    \* map operation: the adapter and the raw file it is handed
    mapped,     \* map operation: its outcome
    flat,       \* grid reconstruction: the flat dataset and the cell looked at
    reshaped    \* grid reconstruction: its outcome

vars == <<ceda, mars, cache, tmpfiles, last, manifest, parsed, rawfile, mapped, flat, reshaped>>

\* ------------------------------------------------------------------ bounds

\* Requested init times are 0..MaxTime (hours since midnight of day 0), and noon.
MaxTime == 3
\* At most MaxTmpFiles listing temp files are left on disk.
MaxTmpFiles == 2
\* A remote payload is at most MaxChunks chunks of 16 KiB.
MaxChunks == 2
\* A listing response holds at most MaxItems entries.
MaxItems == 2
\* A manifest table holds at most MaxRows rows.
MaxRows == 2

Times == (0 .. MaxTime) \cup {12}

\* --------------------------------------------------------- shared helpers

Hour(t) == t % 24
Date(t) == t \div 24

Range(s) == {s[i] : i \in 1 .. Len(s)}

LogEntry(level, event) == [level |-> level, event |-> event]

\* pathlib.Path(): the "no file" value the adapters return
EmptyPath == "."

\* The outcome of a call: what it returned or raised, the log entries it wrote, the
\* external calls it made in order, and the MARS request it sent (if any).
Returned(ret, log, calls) ==
    [ret |-> ret, raised |-> "", log |-> log, calls |-> calls, req |-> "none"]
Raised(exc, log, calls) ==
    [ret |-> "none", raised |-> exc, log |-> log, calls |-> calls, req |-> "none"]
WithReq(out, req) == [out EXCEPT !.req = req]

Call(op, args, env, out) ==
    [op |-> op, args |-> args, env |-> env, ret |-> out.ret, raised |-> out.raised,
     log |-> out.log, calls |-> out.calls, req |-> out.req]

NoCall == Call("none", "none", "none", Returned("none", <<>>, <<>>))

\* The calls that reach a transport: HTTP, FTP, the MARS service, the listing temp file
TransportCalls == {"requests.request", "urllib.request.urlopen", "response.read",
                   "server.execute", "tempfile.NamedTemporaryFile"}

Levels(log) == [i \in 1 .. Len(log) |-> log[i].level]

NoMars == [built |-> FALSE]

\* =================================================== CEDA archive adapter

\* urllib.parse.quote on the credentials the model constructs the adapter with
Credentials == {"", "p w"}
quote(s) == IF s = "p w" THEN "p%20w" ELSE s

NoCeda == [built |-> FALSE, username |-> "", password |-> ""]

\* Client.__init__ of the archive adapter: stores the quoted credentials
CEDA_init(ftpUsername, ftpPassword) ==
    [built |-> TRUE, username |-> quote(ftpUsername), password |-> quote(ftpPassword)]

CEDA_getInitHours == {0, 3, 6, 9, 12, 15, 18, 21}

CEDAFileInfo(t, f) == [it |-> t, filename |-> f]

\* File names of listing entries, and the `setname in filename` substring test on them
FileNames == {"202201010000_u1096_ng_umqv_Wholesale1.grib",
              "202201010000_u1096_ng_umqv_Wholesale2.grib",
              "202201010000_u1096_ng_umqv_Wholesale3.grib"}
\* The entries a listing for `it` may hold: wanted ones, one with an unwanted name, one
\* of the same time of day on the next date
ItemsFor(it) ==
    {CEDAFileInfo(it, f) : f \in FileNames}
    \cup {CEDAFileInfo(it + 24, "202201010000_u1096_ng_umqv_Wholesale1.grib")}
Contains(setname, filename) ==
    \/ setname = "Wholesale1.grib" /\ filename = "202201010000_u1096_ng_umqv_Wholesale1.grib"
    \/ setname = "Wholesale2.grib" /\ filename = "202201010000_u1096_ng_umqv_Wholesale2.grib"

_isWantedFile(fi, dit) ==
    IF Date(fi.it) # Date(dit) \/ Hour(fi.it) # Hour(dit) THEN FALSE
    ELSE IF ~ \E setname \in {"Wholesale1.grib", "Wholesale2.grib"} :
                  Contains(setname, fi.filename) THEN FALSE
    ELSE TRUE

RECURSIVE wantedFiles(_, _)
\* [fi for fi in items if _isWantedFile(fi=fi, dit=it)], order kept
wantedFiles(items, it) ==
    IF items = <<>> THEN <<>>
    ELSE (IF _isWantedFile(Head(items), it) THEN <<Head(items)>> ELSE <<>>)
             \o wantedFiles(Tail(items), it)

\* The listing endpoint's answers. sent: a request was made; conn: requests.request
\* returned a response (it raises otherwise); json: the body decodes (response.json()
\* returns); schema: the decoded body loads as a CEDAResponse.
Statuses == {200, 304, 404, 500}
NoRequest == [sent |-> FALSE, conn |-> FALSE, status |-> 0, json |-> FALSE,
              schema |-> FALSE, items |-> <<>>]
SeqsUpTo(S, n) == UNION {[1 .. k -> S] : k \in 0 .. n}
ListingResponses(it) ==
    {[NoRequest EXCEPT !.sent = TRUE]}
    \cup {[NoRequest EXCEPT !.sent = TRUE, !.conn = TRUE, !.status = s, !.json = j] :
             s \in Statuses, j \in BOOLEAN}
    \cup {[NoRequest EXCEPT !.sent = TRUE, !.conn = TRUE, !.status = s, !.json = TRUE,
                            !.schema = TRUE, !.items = is] :
             s \in {200, 304}, is \in SeqsUpTo(ItemsFor(it), MaxItems)}

\* requests.Response.ok: the status is no client or server error
response_ok(resp) == resp.status < 400

\* Variant: 400 taken for the not-found status
IsNotFound_400(resp) == resp.status = 400
\* `response.status_code == 404`
IsNotFound(resp) == resp.status = 404

\* Client.listRawFilesForInitTime of the archive adapter
CEDA_listRawFilesForInitTime(it, resp) ==
    IF Hour(it) \notin CEDA_getInitHours THEN Returned(<<>>, <<>>, <<>>)
    ELSE IF ~ resp.conn THEN Raised("ConnectionError", <<>>, <<"requests.request">>)
    ELSE IF IsNotFound(resp) THEN
        Returned(<<>>, <<LogEntry("warning", "no data available for init time")>>,
                 <<"requests.request">>)
    ELSE IF ~ response_ok(resp) THEN
        \* the log call's arguments are evaluated first: response.json()
        IF ~ resp.json THEN
            Raised("JSONDecodeError", <<>>, <<"requests.request", "response.json">>)
        ELSE Returned(<<>>, <<LogEntry("warning", "error response from filelist endpoint")>>,
                      <<"requests.request", "response.json">>)
    ELSE IF ~ resp.json THEN
        \* response.json() raises inside the try; the except block calls it again
        Raised("JSONDecodeError", <<>>,
               <<"requests.request", "response.json", "response.json">>)
    ELSE IF ~ resp.schema THEN
        Returned(<<>>,
                 <<LogEntry("warning", "response from ceda does not match expected schema")>>,
                 <<"requests.request", "response.json", "CEDAResponse.Schema.load",
                   "response.json">>)
    ELSE Returned(wantedFiles(resp.items, it), <<>>,
                  <<"requests.request", "response.json", "CEDAResponse.Schema.load">>)

\* The files downloadToCache is asked for, and the cache path of each
DownloadFiles == {CEDAFileInfo(0, "202201010000_u1096_ng_umqv_Wholesale1.grib"),
                  CEDAFileInfo(3, "202201010000_u1096_ng_umqv_Wholesale2.grib")}
rawCachePath(it, filename) == <<it, filename>>
CachePaths == {rawCachePath(fi.it, fi.filename) : fi \in DownloadFiles}

\* A file on disk: `written` chunks of a remote payload of `total` chunks
Absent == [exists |-> FALSE, written |-> 0, total |-> 0]
File(written, total) == [exists |-> TRUE, written |-> written, total |-> total]

\* The FTP transfer: open fails, or the payload has `total` chunks and read number
\* `failAt` raises (failAt = 0: no read raises). The loop makes total + 1 reads.
\* asked: a URL was opened at all.
NoTransfer == [asked |-> FALSE, open |-> FALSE, total |-> 0, failAt |-> 0]
Transfers ==
    {[NoTransfer EXCEPT !.asked = TRUE]}
    \cup UNION {{[asked |-> TRUE, open |-> TRUE, total |-> n, failAt |-> k] : k \in 0 .. n + 1} :
                    n \in 0 .. MaxChunks}

RECURSIVE Streamed(_)
\* The calls of the streaming loop for n chunks: read, write, flush per chunk
Streamed(n) ==
    IF n = 0 THEN <<>> ELSE Streamed(n - 1) \o <<"response.read", "f.write", "f.flush">>

\* Client.downloadToCache of the archive adapter: the call's outcome
CEDA_downloadToCache(self, fi, tr) ==
    IF self.password = "" \/ self.username = "" THEN
        Returned(EmptyPath, <<LogEntry("error", "all ceda credentials not provided")>>, <<>>)
    ELSE IF ~ tr.open THEN
        Returned(EmptyPath,
                 <<LogEntry("debug", "requesting download of file"),
                   LogEntry("warning", "error calling url for file")>>,
                 <<"urllib.request.urlopen">>)
    ELSE IF tr.failAt # 0 THEN
        \* response.read raises inside the with block: nothing catches it
        Raised("OSError", <<LogEntry("debug", "requesting download of file")>>,
               <<"urllib.request.urlopen", "cfp.open">> \o Streamed(tr.failAt - 1)
                   \o <<"response.read">>)
    ELSE Returned(rawCachePath(fi.it, fi.filename),
                  <<LogEntry("debug", "requesting download of file"),
                    LogEntry("debug", "fetched all data from file")>>,
                  <<"urllib.request.urlopen", "cfp.open">> \o Streamed(tr.total)
                      \o <<"response.read">>)

\* Client.downloadToCache of the archive adapter: the cache after the call.
\* cfp.open("wb") creates or truncates the file at the cache path itself; every chunk
\* read is written and flushed there.
CEDA_downloadToCache_cache(self, fi, tr, files) ==
    IF self.password = "" \/ self.username = "" THEN files
    ELSE IF ~ tr.open THEN files
    ELSE [files EXCEPT ![rawCachePath(fi.it, fi.filename)] =
              File(IF tr.failAt # 0 THEN tr.failAt - 1 ELSE tr.total, tr.total)]

\* ================================================ manifest tabular parser

(***************************************************************************)
(* A manifest text is a sequence of lines, a line the sequence of its      *)
(* whitespace-separated fields. A field is table text when it is made of   *)
(* digits and dots only, the characters (with whitespace) of the class     *)
(* [\s\.\d] of the pattern                                                 *)
(*     (?<!step)[\s\.\d]*?(?=\n.*?\nGrand)                                  *)
(* The fields of the model are either table text or hold no character of   *)
(* the class.                                                              *)
(***************************************************************************)
TableTokens == {"0", "1", "2", "3", "4", "5", "9.9", ".", "13204588", "149401026",
                "502365532", "20.3", "47.128", "167.128", "169.128"}
IsTableText(tok) == tok \in TableTokens
EndsWithStep(tok) == tok = "step"

\* (?=\n.*?\nGrand): the match ends at the end of a line i whose next line but one
\* starts with Grand
GrandEnds(lines) ==
    {i \in 1 .. Len(lines) - 2 : lines[i + 2] # <<>> /\ lines[i + 2][1] = "Grand"}

\* The fields up to the end of line i that are not table text, as <<line, field>>
BadFields(lines, i) ==
    {p \in (1 .. i) \X (1 .. 8) : p[2] <= Len(lines[p[1]]) /\ ~ IsTableText(lines[p[1]][p[2]])}
LastBadField(lines, i) ==
    CHOOSE p \in BadFields(lines, i) :
        \A q \in BadFields(lines, i) : q[1] < p[1] \/ (q[1] = p[1] /\ q[2] <= p[2])

\* (?<!step): an empty match right behind a field ending in "step" is refused
Blocked(lines, i) ==
    /\ BadFields(lines, i) # {}
    /\ LastBadField(lines, i) = <<i, Len(lines[i])>>
    /\ EndsWithStep(lines[i][Len(lines[i])])

\* [\s\.\d]*? ending at the end of line i, started as far left as it can: the text
\* behind the last field that is not table text, split into lines
TableLines(lines, i) ==
    IF BadFields(lines, i) = {} THEN SubSeq(lines, 1, i)
    ELSE LET p == LastBadField(lines, i)
         IN  <<SubSeq(lines[p[1]], p[2] + 1, Len(lines[p[1]]))>> \o SubSeq(lines, p[1] + 1, i)

\* _parseAvaliableParams: re.search takes the leftmost match; the 5th field of every
\* matched line with more than 4 fields, as a set (list(set) has no order)
_parseAvaliableParams(fileData) ==
    LET ends == {i \in GrandEnds(fileData) : ~ Blocked(fileData, i)}
    IN  IF ends = {} THEN {}
        ELSE LET i == CHOOSE e \in ends : \A o \in ends : e <= o
                 tablelines == TableLines(fileData, i)
             IN  {tablelines[k][5] :
                     k \in {n \in 1 .. Len(tablelines) : Len(tablelines[n]) > 4}}

\* Manifests: metadata, the header row, table rows, blank lines, the terminator line
HeaderRow == <<"file", "length", "missing", "offset", "param", "step">>
GrandTotal == <<"Grand", "Total">>
Metadata == {<<>>,
             <<<<"class", "=", "od">>>>,
             <<<<"1", "2", "3", "4", "9.9", "5">>, <<"Entries", ":", "2">>>>}
TableRows == {<<"0", "13204588", ".", "149401026", "20.3", "0">>,
              <<"0", "13204588", ".", "502365532", "47.128", "0">>,
              <<"0", "13204588">>}
BlankLines == {<<>>, <<<<>>>>}

ManifestOf(meta, rows, blank) ==
    [lines |-> meta \o <<HeaderRow>> \o rows \o blank \o <<GrandTotal>>,
     rows |-> rows, blank |-> Len(blank)]

Manifests ==
    {ManifestOf(meta, rows, blank) :
        meta \in Metadata, rows \in SeqsUpTo(TableRows, MaxRows), blank \in BlankLines}

NoManifest == [lines |-> <<>>, rows |-> <<>>, blank |-> 0]
NotParsed == [done |-> FALSE, params |-> {}]

\* ============================================== ECMWF MARS forecast-API adapter

\* list(PARAMETER_ECMWFCODE_MAP.keys()), in the order the map is written
PARAMETER_ECMWFCODE_MAP_keys ==
    <<"167.128", "165.128", "166.128", "47.128", "57.128", "188.128", "187.128",
      "186.128", "164.128", "169.128", "175.128", "260048", "141.128", "246.228",
      "247.228", "239.228", "240.228", "20.3">>

\* Variant: an allow-list that also holds "not-a-real-area"
AREA_MAP_Open ==
    ("uk" :> "60/-12/48/3") @@ ("nw-india" :> "31/68/20/79") @@ ("malta" :> "37/13/35/15")
        @@ ("eu" :> "E") @@ ("global" :> "G") @@ ("not-a-real-area" :> "G")
AREA_MAP ==
    ("uk" :> "60/-12/48/3") @@ ("nw-india" :> "31/68/20/79") @@ ("malta" :> "37/13/35/15")
        @@ ("eu" :> "E") @@ ("global" :> "G")

\* `if hours > 90`
HoursLimit == 90
\* `it > now - timedelta(hours=24)`
EmbargoHours == 24
\* `os.stat(tf.name).st_size < 100`
MinListingSize == 100

\* Variant: the archive adapter's init hours
MARS_getInitHours_Archive == {0, 3, 6, 9, 12, 15, 18, 21}
MARS_getInitHours == {0, 12}

\* Variant: the boundary now - 24h counted as inside the embargo
InsideEmbargo_Inclusive(it, now) == it >= now - EmbargoHours
\* `it > dt.datetime.now(tz=dt.UTC) - dt.timedelta(hours=24)`
InsideEmbargo(it, now) == it > now - EmbargoHours

\* Client.__init__ of the forecast-API adapter. apikey: ECMWFService(...) finds its
\* API key; the service client is created before any argument is looked at.
\* self: the instance obtained (NoMars when the constructor raises).
MARS_init(area, hours, param_group, apikey) ==
    IF ~ apikey THEN
        [self |-> NoMars, out |-> Raised("APIKeyNotFoundError", <<>>, <<"ECMWFService">>)]
    ELSE IF area \notin DOMAIN AREA_MAP THEN
        [self |-> NoMars, out |-> Raised("KeyError", <<>>, <<"ECMWFService">>)]
    ELSE IF hours > HoursLimit THEN
        [self |-> NoMars, out |-> Raised("KeyError", <<>>, <<"ECMWFService">>)]
    ELSE IF param_group = "basic" THEN
        [self |-> [built |-> TRUE, area |-> area, hours |-> hours,
                   desired_params |-> <<"167.128", "169.128">>],
         out |-> Returned("Client",
                          <<LogEntry("debug",
                                     "Initialising ECMWF Client with basic parameter group")>>,
                          <<"ECMWFService">>)]
    ELSE
        [self |-> [built |-> TRUE, area |-> area, hours |-> hours,
                   desired_params |-> PARAMETER_ECMWFCODE_MAP_keys],
         out |-> Returned("Client", <<>>, <<"ECMWFService">>)]

RECURSIVE Join(_, _)
\* sep.join(strs)
Join(strs, sep) ==
    IF strs = <<>> THEN ""
    ELSE IF Len(strs) = 1 THEN strs[1]
    ELSE strs[1] \o sep \o Join(Tail(strs), sep)

\* Client._buildMarsRequest: the request, field by field. date is strftime("%Y%m%d")
\* and time strftime("%H") of the init time.
_buildMarsRequest(self, list_only, it, target, params) ==
    [verb |-> IF list_only THEN "list" ELSE "retrieve",
     class |-> "od",
     date |-> Date(it),
     expver |-> 1,
     levtype |-> "sfc",
     param |-> Join(params, "/"),
     step |-> [from |-> 0, to |-> self.hours, by |-> 1],
     stream |-> "oper",
     time |-> Hour(it),
     type |-> "fc",
     area |-> AREA_MAP[self.area],
     grid |-> "0.05/0.05",
     target |-> target]

ECMWFMarsFileInfo(inittime, area, params) ==
    [inittime |-> inittime, area |-> area, params |-> params]

RECURSIVE MissingParamWarnings(_, _)
\* one warning per desired parameter the manifest does not hold
MissingParamWarnings(desired, available) ==
    IF desired = <<>> THEN <<>>
    ELSE (IF Head(desired) \notin available
          THEN <<LogEntry("warning", "ECMWF MARS inittime data does not contain parameter")>>
          ELSE <<>>) \o MissingParamWarnings(Tail(desired), available)

\* The listing temp file's name
TmpName == "tf.name"

\* Client.listRawFilesForInitTime of the forecast-API adapter.
\* env: now (the clock), exec (how server.execute ended), readable and size (of the
\* temp file afterwards), text (the manifest in it).
\* tmp: the temp files the call leaves on disk.
MARS_listRawFilesForInitTime(self, it, env) ==
    IF Hour(it) \notin MARS_getInitHours THEN
        [tmp |-> 0, out |-> Returned(<<>>, <<>>, <<>>)]
    ELSE IF InsideEmbargo(it, env.now) THEN
        [tmp |-> 0, out |-> Raised("ValueError", <<>>, <<>>)]
    ELSE LET req == _buildMarsRequest(self, TRUE, it, TmpName, self.desired_params)
             listing == LogEntry("debug", "listing ECMWF MARS inittime data")
         IN
         IF env.exec = "APIException" THEN
             [tmp |-> 1,
              out |-> WithReq(Returned(<<>>,
                                 <<listing,
                                   LogEntry("warning", "error listing ECMWF MARS inittime data")>>,
                                 <<"tempfile.NamedTemporaryFile", "server.execute">>), req)]
         ELSE IF ~ env.readable \/ env.size < MinListingSize THEN
             [tmp |-> 1,
              out |-> WithReq(Returned(<<>>,
                                 <<listing,
                                   LogEntry("warning",
                                            "ECMWF filelisting is empty, check error logs")>>,
                                 <<"tempfile.NamedTemporaryFile", "server.execute">>), req)]
         ELSE LET available_params == _parseAvaliableParams(env.text)
              IN  [tmp |-> 0,
                   out |-> WithReq(Returned(
                              <<ECMWFMarsFileInfo(it, self.area, available_params)>>,
                              <<listing>>
                                  \o MissingParamWarnings(self.desired_params, available_params)
                                  \o <<LogEntry("debug",
                                                "Listed raw files for ECMWF MARS inittime")>>,
                              <<"tempfile.NamedTemporaryFile", "server.execute", "os.unlink">>),
                              req)]

\* What the model constructs the adapter with, and what the service answers
AreaInputs == {"uk", "global", "not-a-real-area"}
HoursInputs == {48, 90, 91, 100}
ParamGroups == {"default", "basic"}

\* The clock when a listing for `it` is made: it = now - 1h, now - 23h, now - 24h, now - 25h
NowsFor(it) == {it + 1, it + 23, it + 24, it + 25}

ListingRows == {<<>>,
                <<<<"0", "13204588", ".", "149401026", "167.128", "0">>>>,
                <<<<"0", "13204588", ".", "149401026", "167.128", "0">>,
                  <<"0", "13204588", ".", "502365532", "169.128", "0">>>>}
ListingTexts ==
    {ManifestOf(<<>>, rows, <<<<>>>>).lines : rows \in ListingRows}
    \cup {ManifestOf(<<>>, rows, <<>>).lines : rows \in ListingRows}

Unused == [exec |-> "unused", readable |-> FALSE, size |-> 0, text |-> <<>>]
ListingAnswers ==
    {Unused, [Unused EXCEPT !.exec = "APIException"]}
    \cup {[Unused EXCEPT !.exec = "ok"]}
    \cup {[Unused EXCEPT !.exec = "ok", !.readable = TRUE, !.size = z] : z \in {0, 99}}
    \cup {[Unused EXCEPT !.exec = "ok", !.readable = TRUE, !.size = 100, !.text = t] :
             t \in ListingTexts}

\* ----- fetch

\* fi.variables() and fi.it() of a descriptor the listing returned
variables(fi) == fi.params
it_of(fi) == fi.inittime
\* internal.TMP_DIR / fi.filename()
TmpPath == "TMP_DIR/fi.filename()"

\* The orders a list made from a set can have
Orderings(S) ==
    {o \in [1 .. Cardinality(S) -> S] : \A a, b \in 1 .. Cardinality(S) : a # b => o[a] # o[b]}

\* Variant: the first desired parameter, whatever the descriptor holds
fetch_params_desired(self, fi) == {self.desired_params[1]}
\* `params=fi.variables()`: what the fetch asks for
fetch_params(self, fi) == variables(fi)

FetchAnswers == {[exec |-> "APIException", exists |-> FALSE],
                 [exec |-> "ok", exists |-> FALSE],
                 [exec |-> "ok", exists |-> TRUE]}

\* Client.downloadToTemp of the forecast-API adapter. params: the descriptor's
\* variables in the order the descriptor lists them. env: exec (how server.execute
\* ended), exists (the target file is there afterwards).
MARS_downloadToTemp(self, fi, params, env) ==
    LET req == _buildMarsRequest(self, FALSE, it_of(fi), TmpPath, params)
        fetching == LogEntry("debug", "fetching ECMWF MARS data")
    IN  IF env.exec = "APIException" THEN
            WithReq(Returned(<<fi, EmptyPath>>,
                             <<fetching, LogEntry("warning", "error fetching ECMWF MARS data")>>,
                             <<"server.execute">>), req)
        ELSE IF ~ env.exists THEN
            WithReq(Returned(<<fi, EmptyPath>>,
                             <<fetching, LogEntry("warning", "ECMWF data file does not exist")>>,
                             <<"server.execute">>), req)
        ELSE
            WithReq(Returned(<<fi, TmpPath>>,
                             <<fetching, LogEntry("debug", "fetched all data from MARS")>>,
                             <<"server.execute">>), req)

\* ============================================================ map operations

MaxCubes == 2

\* The canonical vocabulary lives in the `internal` package; its members are kept by
\* name. Two values are pinned by the forecast adapter's test of a two-parameter file
\* (variable axis ["prate", "sde"]).
OCFShortName ==
    [TemperatureAGL |-> "OCFShortName.TemperatureAGL",
     WindUComponentAGL |-> "OCFShortName.WindUComponentAGL",
     WindVComponentAGL |-> "OCFShortName.WindVComponentAGL",
     DirectSolarRadiation |-> "OCFShortName.DirectSolarRadiation",
     DownwardUVRadiationAtSurface |-> "OCFShortName.DownwardUVRadiationAtSurface",
     HighCloudCover |-> "OCFShortName.HighCloudCover",
     MediumCloudCover |-> "OCFShortName.MediumCloudCover",
     LowCloudCover |-> "OCFShortName.LowCloudCover",
     TotalCloudCover |-> "OCFShortName.TotalCloudCover",
     DownwardShortWaveRadiationFlux |-> "OCFShortName.DownwardShortWaveRadiationFlux",
     DownwardLongWaveRadiationFlux |-> "OCFShortName.DownwardLongWaveRadiationFlux",
     RainPrecipitationRate |-> "prate",
     SnowDepthWaterEquivalent |-> "sde",
     WindUComponent100m |-> "OCFShortName.WindUComponent100m",
     WindVComponent100m |-> "OCFShortName.WindVComponent100m",
     WindUComponent200m |-> "OCFShortName.WindUComponent200m",
     WindVComponent200m |-> "OCFShortName.WindVComponent200m",
     VisibilityAGL |-> "OCFShortName.VisibilityAGL"]

OCFParameter ==
    [WindDirectionFromWhichBlowingSurfaceAdjustedAGL |->
         "OCFParameter.WindDirectionFromWhichBlowingSurfaceAdjustedAGL",
     WindSpeedSurfaceAdjustedAGL |-> "OCFParameter.WindSpeedSurfaceAdjustedAGL",
     RainPrecipitationRate |-> "OCFParameter.RainPrecipitationRate",
     RelativeHumidityAGL |-> "OCFParameter.RelativeHumidityAGL",
     TemperatureAGL |-> "OCFParameter.TemperatureAGL",
     VisibilityAGL |-> "OCFParameter.VisibilityAGL",
     DownwardShortWaveRadiationFlux |-> "OCFParameter.DownwardShortWaveRadiationFlux",
     DownwardLongWaveRadiationFlux |-> "OCFParameter.DownwardLongWaveRadiationFlux",
     HighCloudCover |-> "OCFParameter.HighCloudCover",
     MediumCloudCover |-> "OCFParameter.MediumCloudCover",
     LowCloudCover |-> "OCFParameter.LowCloudCover",
     SnowDepthWaterEquivalent |-> "OCFParameter.SnowDepthWaterEquivalent"]

\* A dataset: its data variables, its coordinates, its dimensions, the data variables
\* that were multiplied by 1000. The data variables of one hypercube share its
\* dimensions.
Hypercube(vs, coords, dims) == [vars |-> vs, coords |-> coords, dims |-> dims, scaled |-> {}]

\* `name in ds`: a data variable or a coordinate of the dataset
In(name, ds) == name \in ds.vars \cup ds.coords

\* ds.dims: the dimensions of the variables the dataset still holds. A dimension lives
\* on through a data variable, or through its own dimension coordinate.
Dims(ds) == IF ds.vars = {} THEN ds.dims \cap ds.coords ELSE ds.dims

\* ds.drop_vars(names=[c for c in ds.coords if c not in allow], errors="ignore")
drop_coords(ds, allow) ==
    LET kept == [ds EXCEPT !.coords = ds.coords \cap allow]
    IN  [kept EXCEPT !.dims = Dims(kept)]

\* xr.merge(objects=datasets, compat="override", combine_attrs="drop_conflicts")
merge(datasets) ==
    [vars |-> UNION {datasets[i].vars : i \in 1 .. Len(datasets)},
     coords |-> UNION {datasets[i].coords : i \in 1 .. Len(datasets)},
     dims |-> UNION {datasets[i].dims : i \in 1 .. Len(datasets)},
     scaled |-> UNION {datasets[i].scaled : i \in 1 .. Len(datasets)}]

\* What a map operation hands back: no dataset (it raised), xr.Dataset(), or a dataset
\* with its data variables, the entries of its `variable` axis (none without the
\* axis; the axis is sorted, so a set), its dimensions in order and its chunk sizes.
NoDataset ==
    [kind |-> "none", data_vars |-> {}, variable |-> {}, dims |-> <<>>, scaled |-> {},
     chunks |-> <<>>]
EmptyDataset == [NoDataset EXCEPT !.kind = "empty"]
MapReturned(ds, log) == [ret |-> ds, raised |-> "", log |-> log]
MapRaised(exc, log) == [ret |-> NoDataset, raised |-> exc, log |-> log]

\* pathlib: p.suffix of the file names the model maps
Suffix(name) ==
    CASE name \in FileNames -> ".grib"
      [] name = "tmpq2w3.grib" -> ".grib"
      [] name = "listing.txt" -> ".txt"
      [] OTHER -> ""
\* `setname in p.name.lower()`
NameHas(setname, name) ==
    \/ setname = "wholesale1.grib" /\ name = "202201010000_u1096_ng_umqv_Wholesale1.grib"
    \/ setname = "wholesale2.grib" /\ name = "202201010000_u1096_ng_umqv_Wholesale2.grib"

\* ----- archive adapter

PARAMETER_IGNORE_LIST == <<"unknown", "h", "hcct", "cdcb", "dpt", "prmsl", "cbh">>
CEDA_COORDINATE_ALLOW_LIST == <<"time", "step", "x", "y">>

parameterConformMap ==
    ("10wdir" :> OCFParameter.WindDirectionFromWhichBlowingSurfaceAdjustedAGL)
    @@ ("10si" :> OCFParameter.WindSpeedSurfaceAdjustedAGL)
    @@ ("prate" :> OCFParameter.RainPrecipitationRate)
    @@ ("r" :> OCFParameter.RelativeHumidityAGL)
    @@ ("t" :> OCFParameter.TemperatureAGL)
    @@ ("vis" :> OCFParameter.VisibilityAGL)
    @@ ("dswrf" :> OCFParameter.DownwardShortWaveRadiationFlux)
    @@ ("dlwrf" :> OCFParameter.DownwardLongWaveRadiationFlux)
    @@ ("hcc" :> OCFParameter.HighCloudCover)
    @@ ("mcc" :> OCFParameter.MediumCloudCover)
    @@ ("lcc" :> OCFParameter.LowCloudCover)
    @@ ("sde" :> OCFParameter.SnowDepthWaterEquivalent)

\* The UKV domain of _reshapeTo2DGrid
dx == 2000
dy == 2000
maxY == 1223000
minY == 0 - 185000
minX == 0 - 239000
maxX == 857000
\* len(np.arange(start, stop, step)) for a span the step divides
northing_len == (maxY - minY) \div dy
easting_len == (maxX - minX) \div dx

\* _reshapeTo2DGrid raises: ds.sizes["values"] of a dataset without the dimension
\* (KeyError), or a flat axis of the wrong length (ValueError)
reshape_raises(ds, nvalues) ==
    \/ "values" \notin Dims(ds)
    \/ nvalues # northing_len * easting_len
\* assign_coords x, y on `values`; set_index(values=("y", "x")); unstack("values")
_reshapeTo2DGrid(ds) ==
    [ds EXCEPT !.coords = ds.coords \cup {"x", "y"},
               !.dims = (ds.dims \ {"values"}) \cup {"y", "x"}]

\* ----- grid reconstruction, cell by cell

MaxCell == 5

\* np.arange(start=maxY, stop=minY, step=-dy) and np.arange(start=minX, stop=maxX,
\* step=dx), indexed from 0
northing == [i \in 0 .. northing_len - 1 |-> maxY - i * dy]
easting == [j \in 0 .. easting_len - 1 |-> minX + j * dx]
\* np.tile(easting, reps=len(northing))[k] and np.repeat(northing,
\* repeats=len(easting))[k]: the x and y assigned to position k of `values`
x_on_values(k) == easting[k % easting_len]
y_on_values(k) == northing[k \div easting_len]

\* set_index(values=("y", "x")) builds a pandas MultiIndex from the two arrays; its
\* levels are the distinct values of each array in ascending order, and
\* unstack("values") makes these levels the y and x axes.
index_level(S, n) == CHOOSE v \in S : Cardinality({w \in S : w < v}) = n
y_axis(i) == index_level({northing[r] : r \in DOMAIN northing}, i)
x_axis(j) == index_level({easting[c] : c \in DOMAIN easting}, j)
\* The position of `values` whose (y, x) labels cell (i, j) of the unstacked grid
cell_source(i, j) ==
    LET r == CHOOSE r \in DOMAIN northing : northing[r] = y_axis(i)
        c == CHOOSE c \in DOMAIN easting : easting[c] = x_axis(j)
    IN  r * easting_len + c

\* The flat datasets the reconstruction is given (the length of their `values` axis),
\* and the cell of the result that is looked at. Cells are counted from 0; the last
\* row and column are looked at too.
Rows == (0 .. MaxCell) \cup {northing_len - 1}
Cols == (0 .. MaxCell) \cup {easting_len - 1}
FlatOf(nvalues, i, j) == [given |-> TRUE, nvalues |-> nvalues, i |-> i, j |-> j]
NoFlat == [given |-> FALSE, nvalues |-> 0, i |-> 0, j |-> 0]
Flats ==
    {FlatOf(northing_len * easting_len, i, j) : i \in Rows, j \in Cols}
    \cup {FlatOf(n, 0, 0) : n \in {0, northing_len * easting_len - 1,
                                    northing_len * easting_len + 1}}
NotReshaped ==
    [done |-> FALSE, raised |-> "", ny |-> 0, nx |-> 0, y |-> 0, x |-> 0, cell |-> 0]
\* _reshapeTo2DGrid on a dataset with a `values` axis of f.nvalues entries: the sizes
\* of the y and x axes, the coordinates of cell (f.i, f.j) and the position of
\* `values` its data come from
reshape_cell(f) ==
    IF f.nvalues # northing_len * easting_len THEN
        [NotReshaped EXCEPT !.done = TRUE, !.raised = "ValueError"]
    ELSE
        [done |-> TRUE, raised |-> "", ny |-> northing_len, nx |-> easting_len,
         y |-> y_axis(f.i), x |-> x_axis(f.j), cell |-> cell_source(f.i, f.j)]


\* The body of the loop over the hypercubes of an archive file
CEDA_cleanup(cube) ==
    LET level == IF "t" \in cube.vars \cup cube.coords /\ "heightAboveGround" \in cube.dims
                 THEN [cube EXCEPT !.dims = cube.dims \ {"heightAboveGround"}]
                 ELSE cube
        snow == IF In("sde", level) THEN [level EXCEPT !.scaled = level.scaled \cup {"sde"}]
                ELSE level
        wanted == [snow EXCEPT !.vars = snow.vars \ Range(PARAMETER_IGNORE_LIST),
                               !.scaled = snow.scaled \ Range(PARAMETER_IGNORE_LIST)]
    IN  drop_coords(wanted, Range(CEDA_COORDINATE_ALLOW_LIST))

mapCachedRaw(p, file) ==
    LET mapping == LogEntry("debug", "mapping raw file to xarray dataset") IN
    IF Suffix(p) # ".grib" THEN
        MapReturned(EmptyDataset,
                    <<LogEntry("warning", "cannot map non-grib file to dataset")>>)
    ELSE IF ~ \E setname \in {"wholesale1.grib", "wholesale2.grib"} : NameHas(setname, p) THEN
        MapReturned(EmptyDataset,
                    <<mapping,
                      LogEntry("debug", "skipping file as it does not match expected name")>>)
    ELSE IF ~ file.readable THEN
        MapReturned(EmptyDataset,
                    <<mapping, LogEntry("warning", "error converting raw file to dataset")>>)
    ELSE
        LET datasets == [i \in 1 .. Len(file.datasets) |-> CEDA_cleanup(file.datasets[i])]
            wholesaleDataset == merge(datasets)
            grid == _reshapeTo2DGrid(wholesaleDataset)
        IN  IF reshape_raises(wholesaleDataset, file.nvalues) THEN
                MapReturned(EmptyDataset,
                            <<mapping, LogEntry("warning", "error reshaping to 2D grid")>>)
            \* .rename({"time": "init_time"}) of a dataset without `time`
            ELSE IF ~ In("time", grid) /\ "time" \notin grid.dims THEN
                MapRaised("ValueError", <<mapping>>)
            \* .expand_dims("init_time") where init_time is a dimension already
            ELSE IF "time" \in grid.dims THEN
                MapRaised("ValueError", <<mapping>>)
            \* .transpose("init_time", "step", "y", "x") needs exactly these dimensions
            ELSE IF grid.dims \cup {"init_time"} # {"init_time", "step", "y", "x"} THEN
                MapRaised("ValueError", <<mapping>>)
            ELSE
                MapReturned([kind |-> "dataset", data_vars |-> grid.vars, variable |-> {},
                             dims |-> <<"init_time", "step", "y", "x">>,
                             scaled |-> grid.scaled,
                             chunks |-> <<1, -1, northing_len \div 2, easting_len \div 2>>],
                            <<mapping>>)

\* ----- forecast-API adapter

PARAMETER_RENAME_MAP ==
    ("tas" :> OCFShortName.TemperatureAGL)
    @@ ("uas" :> OCFShortName.WindUComponentAGL)
    @@ ("vas" :> OCFShortName.WindVComponentAGL)
    @@ ("dsrp" :> OCFShortName.DirectSolarRadiation)
    @@ ("uvb" :> OCFShortName.DownwardUVRadiationAtSurface)
    @@ ("hcc" :> OCFShortName.HighCloudCover)
    @@ ("mcc" :> OCFShortName.MediumCloudCover)
    @@ ("lcc" :> OCFShortName.LowCloudCover)
    @@ ("clt" :> OCFShortName.TotalCloudCover)
    @@ ("ssrd" :> OCFShortName.DownwardShortWaveRadiationFlux)
    @@ ("strd" :> OCFShortName.DownwardLongWaveRadiationFlux)
    @@ ("tprate" :> OCFShortName.RainPrecipitationRate)
    @@ ("sd" :> OCFShortName.SnowDepthWaterEquivalent)
    @@ ("u100" :> OCFShortName.WindUComponent100m)
    @@ ("v100" :> OCFShortName.WindVComponent100m)
    @@ ("u200" :> OCFShortName.WindUComponent200m)
    @@ ("v200" :> OCFShortName.WindVComponent200m)
    @@ ("vis" :> OCFShortName.VisibilityAGL)
MARS_COORDINATE_ALLOW_LIST == <<"time", "step", "latitude", "longitude">>

\* The grid of the files the forecast adapter is tested on
latitude_len == 241
longitude_len == 301

\* f"ECMWF_{self.area}".upper()
ArrayName(area) ==
    CASE area = "uk" -> "ECMWF_UK"
      [] area = "nw-india" -> "ECMWF_NW-INDIA"
      [] area = "malta" -> "ECMWF_MALTA"
      [] area = "eu" -> "ECMWF_EU"
      [] area = "global" -> "ECMWF_GLOBAL"

\* ds.rename({oldParamName: newParamName}) for every key of the map that is in ds
rename_params(vs) ==
    {IF v \in DOMAIN PARAMETER_RENAME_MAP THEN PARAMETER_RENAME_MAP[v] ELSE v : v \in vs}

\* The body of the loop over the hypercubes of a forecast file
MARS_cleanup(cube) ==
    drop_coords([cube EXCEPT !.vars = rename_params(cube.vars)],
                Range(MARS_COORDINATE_ALLOW_LIST))

mapTemp(self, p, file) ==
    LET mapping == LogEntry("debug", "mapping raw file to xarray dataset") IN
    IF Suffix(p) # ".grib" THEN
        MapReturned(EmptyDataset,
                    <<LogEntry("warning", "cannot map non-grib file to dataset")>>)
    ELSE IF ~ file.readable THEN
        MapReturned(EmptyDataset,
                    <<mapping, LogEntry("warning", "error converting raw file to dataset")>>)
    ELSE
        LET datasets == [i \in 1 .. Len(file.datasets) |-> MARS_cleanup(file.datasets[i])]
            wholesaleDataset == merge(datasets)
        IN  \* .rename({"time": "init_time"}) of a dataset without `time`
            IF ~ In("time", wholesaleDataset) /\ "time" \notin wholesaleDataset.dims THEN
                MapRaised("ValueError", <<mapping>>)
            \* .expand_dims("init_time") where init_time is a dimension already
            ELSE IF "time" \in wholesaleDataset.dims THEN
                MapRaised("ValueError", <<mapping>>)
            \* .transpose(...) needs exactly the five dimensions
            ELSE IF wholesaleDataset.dims \cup {"variable", "init_time"}
                        # {"variable", "init_time", "step", "latitude", "longitude"} THEN
                MapRaised("ValueError", <<mapping>>)
            ELSE
                MapReturned([kind |-> "dataset", data_vars |-> {ArrayName(self.area)},
                             variable |-> wholesaleDataset.vars,
                             dims |-> <<"variable", "init_time", "step", "latitude",
                                        "longitude">>,
                             scaled |-> {},
                             chunks |-> <<-1, 1, -1, latitude_len \div 2,
                                          longitude_len \div 2>>],
                            <<mapping>>)

\* ----- the raw files the model maps

\* Shapes of a hypercube: the usual one (time a scalar coordinate, step a dimension),
\* one with a vertical-level dimension, one of a single step (step a scalar
\* coordinate), one without a time coordinate.
Shapes == {"grid", "levels", "single-step", "no-time"}
ShapedCube(vs, shape, spatial) ==
    Hypercube(vs,
              {"step", "valid_time", "latitude", "longitude", "heightAboveGround"}
                  \cup (IF shape = "no-time" THEN {} ELSE {"time"}),
              spatial \cup (IF shape = "single-step" THEN {} ELSE {"step"})
                  \cup (IF shape = "levels" THEN {"heightAboveGround"} ELSE {}))

CEDA_VarSets == {{"t"}, {"sde", "prmsl"}, {"gust"}, DOMAIN parameterConformMap}
MARS_VarSets == {{"tprate", "sd"}, {"tas", "msl"}, DOMAIN PARAMETER_RENAME_MAP}
CEDA_Cubes == {ShapedCube(vs, sh, {"values"}) : vs \in CEDA_VarSets, sh \in Shapes}
MARS_Cubes ==
    {ShapedCube(vs, sh, {"latitude", "longitude"}) : vs \in MARS_VarSets, sh \in Shapes}

RawFile(adapter, path, readable, datasets, nvalues) ==
    [adapter |-> adapter, path |-> path, readable |-> readable, datasets |-> datasets,
     nvalues |-> nvalues]
RawFiles ==
    {RawFile("ceda", p, FALSE, <<>>, 0) :
        p \in {"202201010000_u1096_ng_umqv_Wholesale1.grib",
               "202201010000_u1096_ng_umqv_Wholesale3.grib", "listing.txt"}}
    \cup {RawFile("ceda", "202201010000_u1096_ng_umqv_Wholesale1.grib", TRUE, ds, n) :
             ds \in SeqsUpTo(CEDA_Cubes, MaxCubes),
             n \in {northing_len * easting_len, northing_len * easting_len - 1}}
    \cup {RawFile("mars", p, FALSE, <<>>, 0) : p \in {"tmpq2w3.grib", "tmpq2w3"}}
    \cup {RawFile("mars", "tmpq2w3.grib", TRUE, ds, 0) : ds \in SeqsUpTo(MARS_Cubes, MaxCubes)}

NoRawFile == RawFile("none", "", FALSE, <<>>, 0)
NotMapped == [done |-> FALSE, ret |-> NoDataset, raised |-> "", log |-> <<>>]

\* ================================================================ actions

\* ------------------------------------------------------- archive actions

ArchiveConstruct ==
    \E u \in Credentials, p \in Credentials :
        /\ ceda' = CEDA_init(u, p)
        /\ last' = Call("CEDA.__init__", [ftpUsername |-> u, ftpPassword |-> p], "none",
                        Returned("Client", <<>>, <<>>))
        /\ UNCHANGED <<mars, cache, tmpfiles, manifest, parsed, rawfile, mapped, flat, reshaped>>

\* The environment is asked only for what the call consumes: no response when no
\* request is sent, no transfer when no URL is opened.
ArchiveList ==
    /\ ceda.built
    /\ \E it \in Times :
        /\ \/ /\ Hour(it) \notin CEDA_getInitHours
              /\ last' = Call("CEDA.listRawFilesForInitTime", [it |-> it], NoRequest,
                              CEDA_listRawFilesForInitTime(it, NoRequest))
           \/ /\ Hour(it) \in CEDA_getInitHours
              /\ \E resp \in ListingResponses(it) :
                    last' = Call("CEDA.listRawFilesForInitTime", [it |-> it], resp,
                                 CEDA_listRawFilesForInitTime(it, resp))
        /\ UNCHANGED <<ceda, mars, cache, tmpfiles, manifest, parsed, rawfile, mapped, flat, reshaped>>

ArchiveDownload ==
    /\ ceda.built
    /\ \E fi \in DownloadFiles :
        /\ \/ /\ ceda.password = "" \/ ceda.username = ""
              /\ last' = Call("CEDA.downloadToCache", [fi |-> fi], NoTransfer,
                              CEDA_downloadToCache(ceda, fi, NoTransfer))
              /\ cache' = CEDA_downloadToCache_cache(ceda, fi, NoTransfer, cache)
           \/ /\ ~ (ceda.password = "" \/ ceda.username = "")
              /\ \E tr \in Transfers :
                    /\ last' = Call("CEDA.downloadToCache", [fi |-> fi], tr,
                                    CEDA_downloadToCache(ceda, fi, tr))
                    /\ cache' = CEDA_downloadToCache_cache(ceda, fi, tr, cache)
        /\ UNCHANGED <<ceda, mars, tmpfiles, manifest, parsed, rawfile, mapped, flat, reshaped>>

InitAdapters ==
    /\ ceda = NoCeda
    /\ mars = NoMars
    /\ cache = [p \in CachePaths |-> Absent]
    /\ tmpfiles = 0
    /\ last = NoCall
    /\ manifest = NoManifest
    /\ parsed = NotParsed
    /\ rawfile = NoRawFile
    /\ mapped = NotMapped
    /\ flat = NoFlat
    /\ reshaped = NotReshaped

NextArchiveList == ArchiveConstruct \/ ArchiveList
SpecArchiveList == InitAdapters /\ [][NextArchiveList]_vars

NextArchiveFetch == ArchiveConstruct \/ ArchiveDownload
SpecArchiveFetch == InitAdapters /\ [][NextArchiveFetch]_vars

\* ------------------------------------------------------ forecast actions

ConstructForecast(apikey) ==
    \E area \in AreaInputs, hours \in HoursInputs, param_group \in ParamGroups :
        LET r == MARS_init(area, hours, param_group, apikey)
        IN  /\ mars' = IF r.out.raised = "" THEN r.self ELSE mars
            /\ last' = Call("MARS.__init__",
                            [area |-> area, hours |-> hours, param_group |-> param_group],
                            [apikey |-> apikey], r.out)
            /\ UNCHANGED <<ceda, cache, tmpfiles, manifest, parsed, rawfile, mapped, flat, reshaped>>

\* The service client finds its API key, or does not
ForecastConstruct == ConstructForecast(TRUE) \/ ConstructForecast(FALSE)

\* The clock is there whether the call reads it or not; the service answers only a
\* call that reaches server.execute.
ForecastList ==
    /\ mars.built
    /\ \E it \in Times : \E now \in NowsFor(it) : \E answer \in ListingAnswers :
        LET env == [now |-> now, exec |-> answer.exec, readable |-> answer.readable,
                    size |-> answer.size, text |-> answer.text]
            r == MARS_listRawFilesForInitTime(mars, it, env)
        IN  /\ (answer = Unused) <=> (r.out.calls = <<>>)
            /\ tmpfiles + r.tmp <= MaxTmpFiles
            /\ tmpfiles' = tmpfiles + r.tmp
            /\ last' = Call("MARS.listRawFilesForInitTime", [it |-> it], env, r.out)
    /\ UNCHANGED <<ceda, mars, cache, manifest, parsed, rawfile, mapped, flat, reshaped>>

NextForecast == ForecastConstruct \/ ForecastList
SpecForecast == InitAdapters /\ [][NextForecast]_vars

\* Both adapters, already constructed, asked for listings in any order
InitListing ==
    /\ ceda = CEDA_init("p w", "p w")
    /\ mars \in {MARS_init("uk", 48, "default", TRUE).self,
                 MARS_init("global", 90, "basic", TRUE).self}
    /\ cache = [p \in CachePaths |-> Absent]
    /\ tmpfiles = 0
    /\ last = NoCall
    /\ manifest = NoManifest
    /\ parsed = NotParsed
    /\ rawfile = NoRawFile
    /\ mapped = NotMapped
    /\ flat = NoFlat
    /\ reshaped = NotReshaped

NextListing == ArchiveList \/ ForecastList
SpecListing == InitListing /\ [][NextListing]_vars

\* ---------------------------------------------------------- parser actions

InitParse ==
    /\ manifest \in Manifests
    /\ parsed = NotParsed
    /\ ceda = NoCeda
    /\ mars = NoMars
    /\ cache = [p \in CachePaths |-> Absent]
    /\ tmpfiles = 0
    /\ last = NoCall
    /\ rawfile = NoRawFile
    /\ mapped = NotMapped
    /\ flat = NoFlat
    /\ reshaped = NotReshaped

Parse ==
    /\ ~ parsed.done
    /\ parsed' = [done |-> TRUE, params |-> _parseAvaliableParams(manifest.lines)]
    /\ UNCHANGED <<manifest, ceda, mars, cache, tmpfiles, last, rawfile, mapped, flat, reshaped>>

NextParse == Parse
SpecParse == InitParse /\ [][NextParse]_vars

\* ------------------------------------------------------------- map actions

\* A raw file on disk and both adapters constructed
InitMap ==
    /\ rawfile \in RawFiles
    /\ mapped = NotMapped
    /\ flat = NoFlat
    /\ reshaped = NotReshaped
    /\ ceda = CEDA_init("p w", "p w")
    /\ mars \in {MARS_init("uk", 48, "default", TRUE).self,
                 MARS_init("global", 90, "basic", TRUE).self}
    /\ cache = [p \in CachePaths |-> Absent]
    /\ tmpfiles = 0
    /\ last = NoCall
    /\ manifest = NoManifest
    /\ parsed = NotParsed

Mapped(out) == [done |-> TRUE, ret |-> out.ret, raised |-> out.raised, log |-> out.log]

ArchiveMap ==
    /\ rawfile.adapter = "ceda"
    /\ ~ mapped.done
    /\ mapped' = Mapped(mapCachedRaw(rawfile.path, rawfile))
    /\ UNCHANGED <<ceda, mars, cache, tmpfiles, last, manifest, parsed, rawfile, flat, reshaped>>

ForecastMap ==
    /\ rawfile.adapter = "mars"
    /\ ~ mapped.done
    /\ mapped' = Mapped(mapTemp(mars, rawfile.path, rawfile))
    /\ UNCHANGED <<ceda, mars, cache, tmpfiles, last, manifest, parsed, rawfile, flat, reshaped>>

NextMap == ArchiveMap \/ ForecastMap
SpecMap == InitMap /\ [][NextMap]_vars

\* ------------------------------------------------- grid reconstruction actions

InitReshape ==
    /\ flat \in Flats
    /\ reshaped = NotReshaped
    /\ ceda = NoCeda
    /\ mars = NoMars
    /\ cache = [p \in CachePaths |-> Absent]
    /\ tmpfiles = 0
    /\ last = NoCall
    /\ manifest = NoManifest
    /\ parsed = NotParsed
    /\ rawfile = NoRawFile
    /\ mapped = NotMapped

Reshape ==
    /\ ~ reshaped.done
    /\ reshaped' = reshape_cell(flat)
    /\ UNCHANGED <<ceda, mars, cache, tmpfiles, last, manifest, parsed, rawfile, mapped,
                   flat>>

NextReshape == Reshape
SpecReshape == InitReshape /\ [][NextReshape]_vars

\* ------------------------------------------------------ list-then-fetch actions

\* The driver hands the descriptor a listing has just returned to downloadToTemp
ForecastFetch ==
    /\ mars.built
    /\ last.op = "MARS.listRawFilesForInitTime"
    /\ last.raised = ""
    /\ last.ret # <<>>
    /\ \E params \in Orderings(fetch_params(mars, last.ret[1])) : \E env \in FetchAnswers :
           last' = Call("MARS.downloadToTemp", [fi |-> last.ret[1]], env,
                        MARS_downloadToTemp(mars, last.ret[1], params, env))
    /\ UNCHANGED <<ceda, mars, cache, tmpfiles, manifest, parsed, rawfile, mapped, flat,
                   reshaped>>

NextProtocol == ForecastList \/ ForecastFetch
SpecProtocol == InitListing /\ [][NextProtocol]_vars

\* ================================================================= claims

IsCedaList == last.op = "CEDA.listRawFilesForInitTime"
IsMarsList == last.op = "MARS.listRawFilesForInitTime"
IsCedaDownload == last.op = "CEDA.downloadToCache"
IsMarsInit == last.op = "MARS.__init__"
NoTransport == \A i \in 1 .. Len(last.calls) : last.calls[i] \notin TransportCalls
Warned == \E i \in 1 .. Len(last.log) : last.log[i].level = "warning"
Logged == last.log # <<>>

\* C1: a listing for a time whose hour of day is not a valid init hour of the adapter
\* (archive: 0,3,...,21; forecast API: 0,12) returns the empty sequence, raises
\* nothing, and has made no transport call (HTTP request, MARS execute, temp file).
C1_InvalidHourListsNothing ==
    /\ (IsCedaList /\ Hour(last.args.it) \notin {0, 3, 6, 9, 12, 15, 18, 21})
           => (last.raised = "" /\ last.ret = <<>> /\ NoTransport)
    /\ (IsMarsList /\ Hour(last.args.it) \notin {0, 12})
           => (last.raised = "" /\ last.ret = <<>> /\ NoTransport)

\* C1 witness: the forecast-API adapter, asked for 03:00 (an archive hour, not one of
\* its own) after earlier listings left temp files, has returned the empty sequence.
C1_Witness ==
    /\ IsMarsList /\ last.args.it = 3 /\ last.ret = <<>> /\ last.calls = <<>>
    /\ tmpfiles > 0

\* C2 as claimed: every forecast-API listing for a time inside the 24-hour embargo
\* (later than now - 24h) raises the embargo error, never a soft-skip empty result.
C2_EmbargoAlwaysRaises ==
    (IsMarsList /\ last.args.it > last.env.now - 24) => last.raised = "ValueError"

\* C2 amended: a forecast-API listing for a time with a valid init hour (0 or 12)
\* inside the embargo raises the embargo error before any transport call; one for a
\* time whose hour is not a valid init hour returns the empty sequence even inside
\* the embargo; one for a time at or before now - 24h never raises it.
C2_EmbargoRaisesForValidHours ==
    IsMarsList =>
        /\ (last.args.it > last.env.now - 24 /\ Hour(last.args.it) \in {0, 12})
               => (last.raised = "ValueError" /\ NoTransport)
        /\ (last.args.it > last.env.now - 24 /\ Hour(last.args.it) \notin {0, 12})
               => (last.raised = "" /\ last.ret = <<>>)
        /\ (last.args.it <= last.env.now - 24) => last.raised # "ValueError"

\* C2 witness: a listing for noon, asked 23 hours later, has raised the embargo error.
C2_Witness ==
    /\ IsMarsList /\ last.args.it = 12 /\ last.env.now = 35
    /\ last.raised = "ValueError"

\* C3 as claimed: archive downloadToCache lets no transport fault escape: when the
\* URL cannot be opened or a chunk read fails, it returns the "no file" path after
\* logging, and raises nothing.
C3_DownloadFaultsContained ==
    (IsCedaDownload /\ last.env.asked /\ (~ last.env.open \/ last.env.failAt # 0))
        => (last.raised = "" /\ last.ret = EmptyPath /\ Warned)

\* C4 as claimed: a partial download is never observable as a complete file: the
\* cache path is returned only after the stream is exhausted, and no file holding a
\* truncated payload exists at a cache path.
C4_NoTruncatedFileInCache ==
    /\ \A p \in CachePaths : cache[p].exists => cache[p].written = cache[p].total
    /\ (IsCedaDownload /\ last.raised = "" /\ last.ret # EmptyPath)
           => (last.env.open /\ last.env.failAt = 0)

\* C5 as claimed: for every archive listing response with a non-2xx status other
\* than 404, or with a body that does not match the listing schema (a body that
\* does not decode included), the listing returns the empty sequence after a
\* warning, and raises nothing.
C5_ListingFaultsContained ==
    (/\ IsCedaList /\ last.env.sent /\ last.env.conn
     /\ \/ (last.env.status \notin 200 .. 299 /\ last.env.status # 404)
        \/ ~ last.env.json
        \/ ~ last.env.schema)
        => (last.raised = "" /\ last.ret = <<>> /\ Warned)

\* C6: when the listing endpoint answers 404 for a valid-hour init time, the archive
\* listing returns the empty sequence, writes exactly one log entry, at warning
\* level, raises nothing, and neither decodes nor schema-validates the body.
C6_NotFoundIsSoft ==
    (IsCedaList /\ last.env.sent /\ last.env.conn /\ last.env.status = 404)
        => /\ last.raised = ""
           /\ last.ret = <<>>
           /\ Levels(last.log) = <<"warning">>
           /\ \A i \in 1 .. Len(last.calls) :
                  last.calls[i] \notin {"response.json", "CEDAResponse.Schema.load"}

\* C6 witness: a 404 whose body does not decode has been answered with the empty
\* sequence.
C6_Witness ==
    /\ IsCedaList /\ last.env.sent /\ last.env.conn /\ last.env.status = 404
    /\ ~ last.env.json /\ last.ret = <<>> /\ Hour(last.args.it) = 3

\* C7 as claimed: constructing the forecast-API adapter with an area outside
\* {uk, nw-india, malta, eu, global} raises the configuration error, yields no
\* instance, and does so before any interaction with the service or its client.
C7_BadAreaRaisesBeforeClient ==
    (IsMarsInit /\ last.args.area \notin {"uk", "nw-india", "malta", "eu", "global"})
        => (last.raised = "KeyError" /\ last.ret = "none" /\ last.calls = <<>>)

\* C7 amended: constructing the forecast-API adapter with an area outside the
\* allow-list always raises at construction (the area KeyError, unless creating the
\* service client has failed first), yields no instance and sends no request; the
\* service client has been created before the area is looked at.
C7_BadAreaRaisesWithoutRequest ==
    (IsMarsInit /\ last.args.area \notin {"uk", "nw-india", "malta", "eu", "global"})
        => /\ last.raised # "" /\ last.ret = "none"
           /\ last.env.apikey => last.raised = "KeyError"
           /\ NoTransport
           /\ last.calls = <<"ECMWFService">>

\* C7 witness: construction with area "not-a-real-area" has raised KeyError while an
\* adapter constructed earlier is still the one in use.
C7_Witness ==
    /\ IsMarsInit /\ last.args.area = "not-a-real-area" /\ last.raised = "KeyError"
    /\ mars.built

\* C8 as claimed: absent archive credentials fail at construction: no archive adapter
\* with an empty username or password exists, and no downloadToCache call returns
\* "no file" because credentials are absent.
C8_NoAdapterWithoutCredentials ==
    /\ ceda.built => (ceda.username # "" /\ ceda.password # "")
    /\ (IsCedaDownload /\ ~ last.env.asked) => last.raised # ""

\* C9 as claimed: for a manifest of metadata, a header row, table rows and a
\* terminator line starting with Grand, the parser returns exactly the set of the
\* 5th field of every table row between the header row and the terminator line
\* (rows with fewer than 5 fields skipped, no rows: the empty list); the rows
\* "0 13204588 . 149401026 20.3 0" and "0 13204588 . 502365532 47.128 0" followed by
\* "Grand Total" give exactly {"20.3", "47.128"}.
C9_ParserReturnsEveryRow ==
    parsed.done =>
        /\ parsed.params =
               {manifest.rows[k][5] :
                   k \in {n \in 1 .. Len(manifest.rows) : Len(manifest.rows[n]) >= 5}}
        /\ manifest.rows = <<<<"0", "13204588", ".", "149401026", "20.3", "0">>,
                             <<"0", "13204588", ".", "502365532", "47.128", "0">>>>
               => parsed.params = {"20.3", "47.128"}

\* The parameter names of a mapped dataset, the native names its raw file held, and
\* the conformance map of the adapter that mapped it
ParameterNames ==
    IF rawfile.adapter = "mars" THEN mapped.ret.variable ELSE mapped.ret.data_vars
RawNames == UNION {rawfile.datasets[i].vars : i \in 1 .. Len(rawfile.datasets)}
ConformanceMap ==
    IF rawfile.adapter = "mars" THEN PARAMETER_RENAME_MAP ELSE parameterConformMap
Image(f) == {f[k] : k \in DOMAIN f}

\* C10 as claimed: for every raw file and both adapters, every parameter name of the
\* dataset the map operation returns (entries of the `variable` axis for the forecast
\* adapter, data-variable names for the archive adapter) is a canonical name in the
\* image of the adapter's parameter-conformance map, and a file holding all mapped
\* parameters gives exactly that image.
C10_OnlyCanonicalNames ==
    mapped.done /\ mapped.ret.kind = "dataset" =>
        /\ ParameterNames \subseteq Image(ConformanceMap)
        /\ DOMAIN ConformanceMap \subseteq RawNames
               => ParameterNames = Image(ConformanceMap)

\* The structural faults of a raw file: a wrong extension, a wrong file name (archive),
\* an unreadable payload, a flat grid axis of the wrong length (archive), a hypercube
\* without the `time` coordinate
StructuralFault ==
    \/ Suffix(rawfile.path) # ".grib"
    \/ /\ rawfile.adapter = "ceda"
       /\ ~ \E setname \in {"wholesale1.grib", "wholesale2.grib"} :
                NameHas(setname, rawfile.path)
    \/ ~ rawfile.readable
    \/ rawfile.adapter = "ceda" /\ rawfile.nvalues # northing_len * easting_len
    \/ \E i \in 1 .. Len(rawfile.datasets) : "time" \notin rawfile.datasets[i].coords

\* C11 as claimed: the map operation of either adapter never raises and never returns
\* a partially built dataset: for a file with a structural fault (wrong extension or
\* name, unreadable payload, flat axis of the wrong length, hypercube without `time`)
\* it returns the empty dataset after logging, and for every other file it returns a
\* fully normalized dataset.
C11_MapFaultsContained ==
    mapped.done =>
        /\ mapped.raised = ""
        /\ StructuralFault => (mapped.ret.kind = "empty" /\ mapped.log # <<>>)
        /\ ~ StructuralFault => mapped.ret.kind = "dataset"

\* C12 as claimed: for a flat `values` axis of length rows * cols the reconstructed
\* grid has a y axis of length rows and an x axis of length cols, the coordinate at
\* position (i, j) is y = maxY - i * dy and x = minX + j * dx (rows top to bottom),
\* and the cell at (i, j) holds the flat value at index i * cols + j; a flat axis of
\* any other length is rejected.
C12_GridIsPositionExact ==
    reshaped.done =>
        IF flat.nvalues = 704 * 548 THEN
            /\ reshaped.raised = ""
            /\ reshaped.ny = 704 /\ reshaped.nx = 548
            /\ reshaped.y = maxY - flat.i * dy
            /\ reshaped.x = minX + flat.j * dx
            /\ reshaped.cell = flat.i * 548 + flat.j
        ELSE reshaped.raised = "ValueError"

\* C13 as claimed: for a schema-valid archive listing response, the listing for t
\* returns exactly the entries whose timestamp equals t in date and time of day and
\* whose file name holds Wholesale1.grib or Wholesale2.grib, in their order of
\* appearance in the response, with duplicates removed: no two returned descriptors
\* are the same entry.
C13_ListingFilteredAndDeduplicated ==
    (IsCedaList /\ last.env.sent /\ last.env.conn /\ last.env.schema) =>
        /\ last.raised = ""
        /\ \A k \in 1 .. Len(last.ret) :
               /\ last.ret[k].it = last.args.it
               /\ last.ret[k].filename \in
                      {"202201010000_u1096_ng_umqv_Wholesale1.grib",
                       "202201010000_u1096_ng_umqv_Wholesale2.grib"}
        /\ \A n \in 1 .. Len(last.env.items) :
               (/\ last.env.items[n].it = last.args.it
                /\ last.env.items[n].filename \in
                       {"202201010000_u1096_ng_umqv_Wholesale1.grib",
                        "202201010000_u1096_ng_umqv_Wholesale2.grib"})
                   => \E k \in 1 .. Len(last.ret) : last.ret[k] = last.env.items[n]
        /\ \E f \in [1 .. Len(last.ret) -> 1 .. Len(last.env.items)] :
               /\ \A k \in 1 .. Len(last.ret) : last.ret[k] = last.env.items[f[k]]
               /\ \A k, l \in 1 .. Len(last.ret) : k < l => f[k] < f[l]
        /\ \A k, l \in 1 .. Len(last.ret) : k # l => last.ret[k] # last.ret[l]

\* C14 as claimed: construction of the forecast-API adapter succeeds only when
\* hours < 90: every construction with hours of 90 or more raises and yields no
\* instance, and the hours stored by a constructed adapter, which every request it
\* builds uses, are always below 90.
C14_HoursBelowNinety ==
    /\ (IsMarsInit /\ last.args.hours >= 90) => (last.raised # "" /\ last.ret = "none")
    /\ mars.built => mars.hours < 90

IsMarsFetch == last.op = "MARS.downloadToTemp"
Executed == \E n \in 1 .. Len(last.calls) : last.calls[n] = "server.execute"

\* C15, the requests: a listing that reaches the service sends a `list` request for
\* the adapter's parameter group (all 18 mapped codes for default, 167.128/169.128
\* for basic) and returns a descriptor whose variables are exactly the set parsed
\* from the manifest; a fetch sends a `retrieve` request, for the descriptor's init
\* time, whose param field lists exactly the descriptor's variables.
C15_Requests ==
    /\ (IsMarsList /\ Executed) =>
           /\ last.req.verb = "list"
           /\ mars.area = "global" => last.req.param = "167.128/169.128"
           /\ mars.area = "uk" =>
                  last.req.param = "167.128/165.128/166.128/47.128/57.128/188.128/187.128/186.128/164.128/169.128/175.128/260048/141.128/246.228/247.228/239.228/240.228/20.3"
           /\ (last.raised = "" /\ last.ret # <<>>) =>
                  (Len(last.ret) = 1
                   /\ last.ret[1].params = _parseAvaliableParams(last.env.text))
    /\ IsMarsFetch =>
           /\ last.req.verb = "retrieve"
           /\ last.req.date = Date(last.args.fi.inittime)
           /\ last.req.time = Hour(last.args.fi.inittime)
           /\ \E o \in Orderings(last.args.fi.params) : last.req.param = Join(o, "/")

\* C15: list-then-fetch. The requests are as above, and the fetch that follows a
\* listing asks for exactly the parameters parsed from that listing's manifest, never
\* for a desired parameter the manifest did not confirm.
C15_ListThenFetch ==
    /\ [] C15_Requests
    /\ [][(last'.op = "MARS.downloadToTemp") =>
              /\ last.op = "MARS.listRawFilesForInitTime"
              /\ last'.args.fi = last.ret[1]
              /\ \E o \in Orderings(_parseAvaliableParams(last.env.text)) :
                     last'.req.param = Join(o, "/")]_vars

\* C15 witness: the basic-group adapter (167.128 and 169.128 desired) has fetched a
\* descriptor whose manifest confirmed 167.128 only, and asked for 167.128 only.
C15_Witness ==
    /\ IsMarsFetch /\ mars.desired_params = <<"167.128", "169.128">>
    /\ last.args.fi.params = {"167.128"}
    /\ last.req.verb = "retrieve" /\ last.req.param = "167.128"
    /\ last.ret[2] = TmpPath

\* C16 as claimed: the temp file a forecast-API listing creates does not outlive the
\* call: on every return path taken after its creation (successful listing, API
\* exception, unreadable or too-small manifest) it has been removed when the call
\* returns, so any sequence of listing calls leaves no listing file behind.
C16_NoLeftoverListingFiles ==
    /\ tmpfiles = 0
    /\ (IsMarsList /\ \E n \in 1 .. Len(last.calls) :
                          last.calls[n] = "tempfile.NamedTemporaryFile")
           => \E n \in 1 .. Len(last.calls) : last.calls[n] = "os.unlink"

====
